---------------------------- MODULE Spec2Model ----------------------------
(***************************************************************************)
(* RP2040 ADC calibrator (adc_calibration_sd.ino, ADCProfile.hpp).         *)
(*                                                                         *)
(* The converter has 4096 codes in the firmware.  The tables of the        *)
(* collector, the LUT builder and the store are modelled over NUM_CODES    *)
(* codes (MAX_CODE stands where the source writes 4095), so that TLC can   *)
(* enumerate every histogram and every table of that size.  The boundary   *)
(* smoother is modelled with the source's own constants over 4096 codes.   *)
(***************************************************************************)
EXTENDS Integers, Sequences, FiniteSets, TLC

\* Number of converter codes of the scaled tables (4096 in the firmware).
NUM_CODES == 5
\* Largest per-code count of the enumerated histograms.
MaxCount == 2

MAX_CODE == NUM_CODES - 1
Codes == 0 .. MAX_CODE

VARIABLES
  pc,         \* position of the program
  histogram,  \* static uint32_t histogram[4096]
  cal_data,   \* static CalibrationData cal_data
  passes,     \* smoothing passes run so far
  sd_accumulator,  \* static uint32_t sd_accumulator
  sd_target,       \* static uint32_t sd_target
  fifo,            \* TX FIFO of the PIO state machine, oldest word first
  ret,             \* value returned by the last call that returns one
  fed_words,       \* words fed since the last dac_set_level
  set_bits,        \* set bits in those words
  from_init,       \* sd_accumulator at the last dac_set_level was that of
                   \* the initialization
  sweep,           \* collect_histogram: int sweep
  level,           \* collect_histogram_sweep: int level
  s,               \* collect_histogram_sweep: int s
  discarded,       \* readings of this collection that were not below 4096
  runs,            \* collections started so far
  files,           \* LittleFS: the content of each path
  before,          \* cal_data at the last call of load_calibration
  saved,           \* cal_data at the last call of save_calibration
  save_ok,         \* that call wrote all of /adc_cal.bin, /adc_cal.csv
  read_bytes,      \* bytes the last load_calibration read, -1 if none
  calls,           \* what the current run_calibration has called so far
  app,             \* the consuming application: cal_data, histogram and
                   \* the value load_calibration_from_file returned
  raw,             \* argument of the last call of adc_corrected
  corrected,       \* value that call returned
  corrected_with   \* cal_data.magic at that call, <<>> before any call

calVars == <<histogram, cal_data>>
dacVars == <<sd_accumulator, sd_target, fifo, fed_words, set_bits, from_init>>
colVars == <<sweep, level, s, discarded, runs>>
vars == <<pc, histogram, cal_data, passes, sd_accumulator, sd_target, fifo,
          ret, fed_words, set_bits, from_init, sweep, level, s, discarded,
          runs, files, before, saved, save_ok, read_bytes, calls, app,
          raw, corrected, corrected_with>>
storeVars == <<files, before, saved, save_ok, read_bytes>>
flowVars == <<calls, app>>
adcVars == <<raw, corrected, corrected_with>>

-----------------------------------------------------------------------------
(* Fixed-width integers *)

\* (int16_t)v for an integer v: reduction modulo 2^16 into -32768..32767
ToInt16(v) == ((v + 32768) % 65536) - 32768

\* round(num/den) of <math.h> for den > 0: nearest integer, halves away from 0
Round(num, den) ==
  IF num >= 0 THEN (2 * num + den) \div (2 * den)
  ELSE -((2 * (-num) + den) \div (2 * den))

-----------------------------------------------------------------------------
(* uint32_t values are kept as their two 16-bit halves *)

U32(hi, lo) == [hi |-> hi, lo |-> lo]
UInt32 == [hi : 0 .. 65535, lo : 0 .. 65535]
Zero32 == U32(0, 0)

\* a + b in uint32_t arithmetic: the carry out of bit 31 is dropped
Add32(a, b) ==
  U32((a.hi + b.hi + (a.lo + b.lo) \div 65536) % 65536, (a.lo + b.lo) % 65536)

\* a < b
Lt32(a, b) == a.hi < b.hi \/ (a.hi = b.hi /\ a.lo < b.lo)

\* a | (1u << i)
SetBit32(a, i) ==
  IF i < 16
  THEN U32(a.hi, IF (a.lo \div 2^i) % 2 = 1 THEN a.lo ELSE a.lo + 2^i)
  ELSE U32(IF (a.hi \div 2^(i - 16)) % 2 = 1 THEN a.hi ELSE a.hi + 2^(i - 16),
           a.lo)

\* number of set bits of a 16-bit value
RECURSIVE PopCount16(_)
PopCount16(v) == IF v = 0 THEN 0 ELSE (v % 2) + PopCount16(v \div 2)

PopCount32(a) == PopCount16(a.hi) + PopCount16(a.lo)

-----------------------------------------------------------------------------
(* Calibration record *)

\* 0xCA11B8ED as the four bytes of its little-endian image (ED B8 11 CA)
MAGIC == <<237, 184, 17, 202>>
NoMagic == <<0, 0, 0, 0>>

ZeroTable == [i \in Codes |-> 0]

\* static storage is zero-initialised
ZeroCalData ==
  [magic |-> NoMagic, correction |-> ZeroTable, adc_min |-> 0, adc_max |-> 0]

-----------------------------------------------------------------------------
(* Memory images.  A file holds bytes; save and load copy the bytes of the   *)
(* objects (little-endian on the RP2040, no padding for 4096 entries).       *)

\* sizeof(histogram), sizeof(cal_data)
SIZEOF_HIST == 4 * NUM_CODES
SIZEOF_CAL == 4 + 2 * NUM_CODES + 2 + 2

\* byte k (0 the lowest) of a non-negative value
ByteOf(v, k) == (v \div 256^k) % 256

\* the uint16_t with the bits of an int16_t
Bits16(v) == (v + 65536) % 65536

\* the bytes of cal_data, at their offsets + 1
CalImage(cd) ==
  [k \in 1 .. SIZEOF_CAL |->
     LET o == k - 1
     IN IF o < 4 THEN cd.magic[o + 1]
        ELSE IF o < 4 + 2 * NUM_CODES
          THEN ByteOf(Bits16(cd.correction[(o - 4) \div 2]), (o - 4) % 2)
        ELSE IF o < 6 + 2 * NUM_CODES
          THEN ByteOf(cd.adc_min, o - (4 + 2 * NUM_CODES))
        ELSE ByteOf(cd.adc_max, o - (6 + 2 * NUM_CODES))]

\* an entry of the table read as if it were unsigned
EntryOfBytesUnsigned(lo, hi) == lo + 256 * hi

\* the int16_t whose two bytes are lo, hi
EntryOfBytes(lo, hi) == ToInt16(lo + 256 * hi)

\* the record whose bytes are b
CalOfImage(b) ==
  [magic      |-> <<b[1], b[2], b[3], b[4]>>,
   correction |-> [i \in Codes |-> EntryOfBytes(b[5 + 2 * i], b[6 + 2 * i])],
   adc_min    |-> b[5 + 2 * NUM_CODES] + 256 * b[6 + 2 * NUM_CODES],
   adc_max    |-> b[7 + 2 * NUM_CODES] + 256 * b[8 + 2 * NUM_CODES]]

\* the bytes of histogram, at their offsets + 1
HistImage(h) == [k \in 1 .. SIZEOF_HIST |-> ByteOf(h[(k - 1) \div 4], (k - 1) % 4)]

\* the histogram whose bytes are b (counts below 2^31)
HistOfImage(b) ==
  [i \in Codes |->
     b[4 * i + 1] + 256 * b[4 * i + 2] + 65536 * b[4 * i + 3]
       + 16777216 * b[4 * i + 4]]

\* f.read(buf, size) at offset off of data: the bytes it returns
ReadCount(data, off, size) ==
  IF Len(data) - off >= size THEN size
  ELSE IF Len(data) > off THEN Len(data) - off ELSE 0

\* the image of an object after n bytes of data, from offset off, were read
\* over its start
ReadOver(image, data, off, n) ==
  [k \in 1 .. Len(image) |-> IF k <= n THEN data[off + k] ELSE image[k]]

-----------------------------------------------------------------------------
(* Persistence: LittleFS, save_calibration, load_calibration *)

CAL_BIN == "/adc_cal.bin"
CAL_CSV == "/adc_cal.csv"
HIST_BIN == "/histogram.bin"
Paths == {CAL_BIN, CAL_CSV, HIST_BIN}

NoFile == [exists |-> FALSE, data |-> <<>>]
FileOf(data) == [exists |-> TRUE, data |-> data]
NoFiles == [p \in Paths |-> NoFile]

NothingSaved == [bin |-> FALSE, csv |-> FALSE]

\* what a call of save_calibration wrote in full
SaveOutcome(begin1, begin2, csv_open, bin_open, written) ==
  [bin |-> ((begin1 \/ begin2) /\ bin_open /\ written = SIZEOF_CAL),
   csv |-> ((begin1 \/ begin2) /\ csv_open)]

\* no file, no call yet
StoreInit ==
  /\ files = NoFiles
  /\ before = ZeroCalData
  /\ saved = ZeroCalData
  /\ save_ok = NothingSaved
  /\ read_bytes = -1

\* f.println("code,count,correction"); f.printf("%d,%lu,%d\n", ...) per code
CsvRows(h, cd) ==
  <<"code,count,correction">>
    \o [k \in 1 .. NUM_CODES |-> <<k - 1, h[k - 1], cd.correction[k - 1]>>]

\* save_calibration.  The store decides begin1, begin2 (LittleFS.begin()
\* before and after the format), csv_open and bin_open (the two opens for
\* writing) and written (the bytes f.write transfers, which the code does
\* not look at).  The result is the content of the file system.
SaveCalibration(fl, h, cd, begin1, begin2, csv_open, bin_open, written) ==
  LET mounted == IF begin1 THEN fl ELSE NoFiles
      csv == IF csv_open
             THEN [mounted EXCEPT ![CAL_CSV] = FileOf(CsvRows(h, cd))]
             ELSE mounted
      bin == IF bin_open
             THEN [csv EXCEPT ![CAL_BIN] = FileOf(SubSeq(CalImage(cd), 1, written))]
             ELSE csv
  IN IF ~begin1 /\ ~begin2 THEN mounted ELSE bin

\* load_calibration.  The store decides begin (LittleFS.begin()) and open
\* (the open for reading, which fails when the file does not exist).
\* The result: the value returned, cal_data, and the bytes read.
LoadCalibration(fl, cd, begin, open) ==
  IF ~begin \/ ~open \/ ~fl[CAL_BIN].exists
  THEN [ret |-> FALSE, cal_data |-> cd, bytes |-> -1]
  ELSE LET data  == fl[CAL_BIN].data
           bytes == ReadCount(data, 0, SIZEOF_CAL)
           cd2   == CalOfImage(ReadOver(CalImage(cd), data, 0, bytes))
       IN [ret      |-> (bytes = SIZEOF_CAL /\ cd2.magic = MAGIC),
           cal_data |-> cd2,
           bytes    |-> bytes]

\* Lengths at which a write or a file ends short.
ShortLengths == {0, 3, 4, SIZEOF_CAL - 1}

\* Values of the entries of the records saved and stored.
EntryValues == {-1, 258}

\* records a calibration leaves in cal_data
BuiltRecords ==
  [magic : {MAGIC}, correction : [Codes -> EntryValues],
   adc_min : {0}, adc_max : {MAX_CODE}]

\* a record of the right size that is no calibration: 0xCA11B8EC
BAD_MAGIC == <<236, 184, 17, 202>>

\* what /adc_cal.bin holds when the firmware starts
StoredFiles ==
  {NoFile}
    \cup {FileOf(CalImage([r EXCEPT !.adc_max = 1])) : r \in BuiltRecords}
    \cup {FileOf(CalImage([magic |-> BAD_MAGIC,
                           correction |-> [i \in Codes |-> -1],
                           adc_min |-> 1, adc_max |-> 1]))}
    \cup {FileOf(SubSeq(CalImage([magic |-> MAGIC,
                                  correction |-> [i \in Codes |-> 258],
                                  adc_min |-> 1, adc_max |-> 1]), 1, n)) :
             n \in ShortLengths}

\* the application's static objects before its loader runs
AppInit == [cal_data |-> ZeroCalData, histogram |-> ZeroTable, ret |-> FALSE]

FlowInit ==
  /\ calls = <<>>
  /\ app = AppInit

\* adc_corrected was not called yet
AdcInit ==
  /\ raw = 0
  /\ corrected = 0
  /\ corrected_with = <<>>

-----------------------------------------------------------------------------
(* Waveform generator: the PIO sigma-delta DAC *)

\* Words the TX FIFO of the PIO state machine holds (4 on the RP2040).
TX_FIFO_DEPTH == 2
\* Words fed in one run of the modulator.
MaxWords == 6
\* The levels the modulator is run at.
Levels == {0, 1, 1365, 2048, 4095}

\* sd_accumulator = 0, sd_target = 0; dac_init leaves the FIFO empty
DacInit ==
  /\ sd_accumulator = Zero32
  /\ sd_target = Zero32
  /\ fifo = <<>>
  /\ fed_words = 0
  /\ set_bits = 0
  /\ from_init = TRUE

\* no collection is under way
ColInit ==
  /\ sweep = 0
  /\ level = 0
  /\ s = 0
  /\ discarded = 0
  /\ runs = 0

\* ((uint32_t)(level_12bit & 0xFFF)) << 20
TargetOf(level_12bit) == U32((level_12bit % 4096) * 16, 0)

\* the 12-bit level of a target
LevelOf(target) == target.hi \div 16

dac_set_level(level_12bit) ==
  /\ sd_target' = TargetOf(level_12bit)
  /\ fed_words' = 0
  /\ set_bits' = 0
  /\ from_init' = (sd_accumulator = Zero32)
  /\ UNCHANGED <<sd_accumulator, fifo>>

\* for (int i = 0; i < 32; i++) { old_acc = acc; acc += target;
\*                                if (acc < old_acc) word |= (1u << i); }
FeedLoop[i \in 0 .. 32, acc \in UInt32, target \in UInt32, word \in UInt32] ==
  IF i < 32
  THEN FeedLoop[i + 1, Add32(acc, target), target,
                IF Lt32(Add32(acc, target), acc) THEN SetBit32(word, i) ELSE word]
  ELSE [acc |-> acc, word |-> word]

\* the accumulator a feed stores back: the feed that forgets the store
StoredAccStale(out, acc) == acc

\* sd_accumulator = acc;
StoredAcc(out, acc) == out.acc

\* a feed that does not look at the FIFO
TxFifoNeverFull == FALSE

\* pio_sm_is_tx_fifo_full
TxFifoFull == Len(fifo) >= TX_FIFO_DEPTH

dac_feed_one ==
  IF TxFifoFull
  THEN /\ ret' = FALSE
       /\ UNCHANGED dacVars
  ELSE LET out == FeedLoop[0, sd_accumulator, sd_target, Zero32]
       IN /\ sd_accumulator' = StoredAcc(out, sd_accumulator)
          /\ fifo' = Append(fifo, out.word)
          /\ ret' = TRUE
          /\ fed_words' = fed_words + 1
          /\ set_bits' = set_bits + PopCount32(out.word)
          /\ UNCHANGED <<sd_target, from_init>>

\* The state machine runs `out pins, 1` with autopull at 32 bits: it takes the
\* oldest word out of the FIFO.
pio_out ==
  /\ fifo # <<>>
  /\ fifo' = Tail(fifo)
  /\ UNCHANGED <<sd_accumulator, sd_target, fed_words, set_bits, from_init, ret>>

DacSetLevel ==
  /\ \E lv \in Levels : dac_set_level(lv)
  /\ UNCHANGED <<pc, calVars, passes, ret, colVars,
               storeVars, flowVars, adcVars>>

DacFeedOne ==
  /\ fed_words < MaxWords
  /\ dac_feed_one
  /\ UNCHANGED <<pc, calVars, passes, colVars,
               storeVars, flowVars, adcVars>>

PioOut == pio_out /\ UNCHANGED <<pc, calVars, passes, colVars,
               storeVars, flowVars, adcVars>>

\* The modulator after dac_init; one level is set and held (from_init tells
\* the runs that start from the accumulator of the initialization).
InitDac ==
  /\ pc = "dac"
  /\ histogram = ZeroTable
  /\ cal_data = ZeroCalData
  /\ passes = 0
  /\ ret = FALSE
  /\ DacInit
  /\ ColInit
  /\ StoreInit
  /\ FlowInit
  /\ AdcInit

NextDac == DacSetLevel \/ DacFeedOne \/ PioOut

SpecDac == InitDac /\ [][NextDac]_vars

-----------------------------------------------------------------------------
(* Histogram collector: collect_histogram, collect_histogram_sweep *)

NUM_SWEEPS == 4
\* Samples at each level (the README's default is 128).
SAMPLES_PER_LEVEL == 1
\* Collections run one after the other.
MaxRuns == 2

\* Highest level of a sweep (4095 in the firmware); at most MAX_CODE.
MaxLevel == 2

\* A reading is a uint16_t.  At a level the converter answers the level's own
\* code or the next one; at the highest level the other answer is a value
\* that is not a code of the table.
ReadingsAt(lv) == {lv, IF lv < MaxLevel THEN lv + 1 ELSE NUM_CODES}

\* memset(histogram, 0, sizeof(histogram)) forgotten
KeptHistogram(h) == h

\* memset(histogram, 0, sizeof(histogram))
ClearedHistogram(h) == [i \in DOMAIN h |-> 0]

\* collect_histogram_sweep(sweep % 2 == 0)
Ascending(sw) == sw % 2 = 0

\* int start = ascending ? 0 : 4095;
SweepStart(sw) == IF Ascending(sw) THEN 0 ELSE MaxLevel

\* ascending ? (level <= end) : (level >= end), end = ascending ? 4095 : 0
SweepContinues(sw, lv) == IF Ascending(sw) THEN lv <= MaxLevel ELSE lv >= 0

\* level += step
NextLevel(sw, lv) == IF Ascending(sw) THEN lv + 1 ELSE lv - 1

\* if (code < 4096) histogram[code]++;
Tally(h, code) == IF code < NUM_CODES THEN [h EXCEPT ![code] = @ + 1] ELSE h

\* collect_histogram up to the first level of the first sweep
collect_begin ==
  /\ pc = "idle"
  /\ runs < MaxRuns
  /\ histogram' = ClearedHistogram(histogram)
  /\ sweep' = 0
  /\ level' = SweepStart(0)
  /\ s' = 0
  /\ discarded' = 0
  /\ runs' = runs + 1
  /\ pc' = "settle"
  /\ UNCHANGED <<cal_data, passes, ret, dacVars,
               storeVars, flowVars, adcVars>>

\* dac_set_and_settle(level, SETTLE_US); s = 0.  The feeds of the settle loop
\* and of the sample loop act on the modulator alone (dac_feed_one); the
\* readings are the converter's answers.
collect_settle ==
  /\ pc = "settle"
  /\ dac_set_level(level)
  /\ s' = 0
  /\ pc' = "sample"
  /\ UNCHANGED <<calVars, passes, ret, sweep, level, discarded, runs,
               storeVars, flowVars, adcVars>>

\* one pass of `for (int s = 0; s < SAMPLES_PER_LEVEL; s++)`
collect_sample ==
  /\ pc = "sample"
  /\ s < SAMPLES_PER_LEVEL
  /\ \E code \in ReadingsAt(level) :
       /\ histogram' = Tally(histogram, code)
       /\ discarded' = IF code < NUM_CODES THEN discarded ELSE discarded + 1
  /\ s' = s + 1
  /\ UNCHANGED <<pc, cal_data, passes, ret, dacVars, sweep, level, runs,
               storeVars, flowVars, adcVars>>

\* the sample loop is over: the next level of the sweep
collect_next_level ==
  /\ pc = "sample"
  /\ s = SAMPLES_PER_LEVEL
  /\ SweepContinues(sweep, NextLevel(sweep, level))
  /\ level' = NextLevel(sweep, level)
  /\ pc' = "settle"
  /\ UNCHANGED <<calVars, passes, ret, dacVars, sweep, s, discarded, runs,
               storeVars, flowVars, adcVars>>

\* the sweep is over: the next sweep
collect_next_sweep ==
  /\ pc = "sample"
  /\ s = SAMPLES_PER_LEVEL
  /\ ~SweepContinues(sweep, NextLevel(sweep, level))
  /\ sweep + 1 < NUM_SWEEPS
  /\ sweep' = sweep + 1
  /\ level' = SweepStart(sweep + 1)
  /\ pc' = "settle"
  /\ UNCHANGED <<calVars, passes, ret, dacVars, s, discarded, runs,
               storeVars, flowVars, adcVars>>

\* the last sweep is over: dac_set_level(0)
collect_end ==
  /\ pc = "sample"
  /\ s = SAMPLES_PER_LEVEL
  /\ ~SweepContinues(sweep, NextLevel(sweep, level))
  /\ sweep + 1 >= NUM_SWEEPS
  /\ sweep' = sweep + 1
  /\ dac_set_level(0)
  /\ pc' = "collected"
  /\ UNCHANGED <<calVars, passes, ret, level, s, discarded, runs,
               storeVars, flowVars, adcVars>>

\* the next command starts another collection on the histogram as it stands
collect_again ==
  /\ pc = "collected"
  /\ runs < MaxRuns
  /\ pc' = "idle"
  /\ UNCHANGED <<calVars, passes, ret, dacVars, colVars,
               storeVars, flowVars, adcVars>>

InitCollect ==
  /\ pc = "idle"
  /\ histogram = ZeroTable
  /\ cal_data = ZeroCalData
  /\ passes = 0
  /\ ret = FALSE
  /\ DacInit
  /\ ColInit
  /\ StoreInit
  /\ FlowInit
  /\ AdcInit

NextCollect ==
  \/ collect_begin
  \/ collect_settle
  \/ collect_sample
  \/ collect_next_level
  \/ collect_next_sweep
  \/ collect_end
  \/ collect_again

SpecCollect == InitCollect /\ [][NextCollect]_vars

-----------------------------------------------------------------------------
(* LUT builder: build_correction_lut *)

\* while (code_min < 4095 && histogram[code_min] == 0) code_min++;
RECURSIVE ScanMin(_, _)
ScanMin(h, code_min) ==
  IF code_min < MAX_CODE /\ h[code_min] = 0
  THEN ScanMin(h, code_min + 1)
  ELSE code_min

\* ScanMax with the guard off by one: the scan stops at code 1
RECURSIVE ScanMaxStopsEarly(_, _)
ScanMaxStopsEarly(h, code_max) ==
  IF code_max > 1 /\ h[code_max] = 0
  THEN ScanMaxStopsEarly(h, code_max - 1)
  ELSE code_max

\* while (code_max > 0 && histogram[code_max] == 0) code_max--;
RECURSIVE ScanMax(_, _)
ScanMax(h, code_max) ==
  IF code_max > 0 /\ h[code_max] = 0
  THEN ScanMax(h, code_max - 1)
  ELSE code_max

\* for (int i = code_min; i <= code_max; i++) total_samples += histogram[i];
RECURSIVE TotalSamples(_, _, _, _)
TotalSamples(h, i, code_max, total_samples) ==
  IF i <= code_max
  THEN TotalSamples(h, i + 1, code_max, total_samples + h[i])
  ELSE total_samples

\* One in-range entry.  cum2 is twice the running `cumulative` after the first
\* half of bin i was added; expected_per_code = total / n, so that
\*   ideal_code = code_min + cumulative / expected_per_code
\*              = (2*total*code_min + cum2*n) / (2*total)
\* The double arithmetic is taken as exact.
IdealCorrection(i, cum2, code_min, n, total) ==
  ToInt16(ToInt16(Round(2 * total * code_min + cum2 * n, 2 * total)) - i)

\* LutLoop that leaves the entries above code_max as they were
RECURSIVE LutLoopKeepsTail(_, _, _, _, _, _, _)
LutLoopKeepsTail(h, i, cum2, corr, code_min, code_max, total) ==
  IF i >= NUM_CODES THEN corr
  ELSE IF i < code_min
    THEN LutLoopKeepsTail(h, i + 1, cum2, [corr EXCEPT ![i] = 0],
                          code_min, code_max, total)
  ELSE IF i > code_max
    THEN LutLoopKeepsTail(h, i + 1, cum2, corr, code_min, code_max, total)
  ELSE LutLoopKeepsTail(h, i + 1, cum2 + 2 * h[i],
                        [corr EXCEPT ![i] =
                           IdealCorrection(i, cum2 + h[i], code_min,
                                           code_max - code_min + 1, total)],
                        code_min, code_max, total)

\* for (int i = 0; i < 4096; i++) { ... }
RECURSIVE LutLoop(_, _, _, _, _, _, _)
LutLoop(h, i, cum2, corr, code_min, code_max, total) ==
  IF i >= NUM_CODES THEN corr
  ELSE IF i < code_min
    THEN LutLoop(h, i + 1, cum2, [corr EXCEPT ![i] = 0],
                 code_min, code_max, total)
  ELSE IF i > code_max
    THEN LutLoop(h, i + 1, cum2, [corr EXCEPT ![i] = corr[code_max]],
                 code_min, code_max, total)
  ELSE LutLoop(h, i + 1, cum2 + 2 * h[i],
               [corr EXCEPT ![i] =
                  IdealCorrection(i, cum2 + h[i], code_min,
                                  code_max - code_min + 1, total)],
               code_min, code_max, total)

\* the record build_correction_lut leaves in cal_data
BuildCorrectionLut(h, cd) ==
  LET code_min == ScanMin(h, 0)
      code_max == ScanMax(h, MAX_CODE)
      total    == TotalSamples(h, code_min, code_max, 0)
  IN [magic      |-> MAGIC,
      correction |-> LutLoop(h, 0, 0, cd.correction, code_min, code_max, total),
      adc_min    |-> code_min,
      adc_max    |-> code_max]

build_correction_lut ==
  /\ pc = "hist"
  /\ cal_data' = BuildCorrectionLut(histogram, cal_data)
  /\ pc' = "built"
  /\ UNCHANGED <<histogram, passes, ret, dacVars, colVars,
               storeVars, flowVars, adcVars>>

\* Histograms of every shape, and the table left by an earlier calibration.
InitBuild ==
  /\ pc = "hist"
  /\ histogram \in [Codes -> 0 .. MaxCount] \cup {[i \in Codes |-> 100]}
  /\ cal_data \in {ZeroCalData,
                   [ZeroCalData EXCEPT !.correction = [i \in Codes |-> 7]]}
  /\ passes = 0
  /\ ret = FALSE
  /\ DacInit
  /\ ColInit
  /\ StoreInit
  /\ FlowInit
  /\ AdcInit

SpecBuild == InitBuild /\ [][build_correction_lut]_vars

-----------------------------------------------------------------------------
(* Claims about the LUT builder, checked under SpecBuild *)

Uniform(h) == h[0] # 0 /\ \A i \in Codes : h[i] = h[0]

\* C1: for a uniform histogram (every code has the same nonzero count, so
\* code_min = 0 and code_max = 4095) build_correction_lut yields
\* correction[code] = 0 for every code.
C1_UniformGivesZeroCorrection ==
  (pc = "built" /\ Uniform(histogram))
    => \A code \in Codes : cal_data.correction[code] = 0

\* histogram is zero outside [a,b] and nonzero at a and at b
SupportIs(h, a, b) ==
  /\ a <= b /\ h[a] # 0 /\ h[b] # 0
  /\ \A i \in Codes : (i < a \/ i > b) => h[i] = 0

\* C2: for every histogram whose counts are zero outside [a,b] and nonzero at
\* a and at b, build_correction_lut reports adc_min = a and adc_max = b.
C2_RangeTrimming ==
  pc = "built" =>
    \A a, b \in Codes :
      SupportIs(histogram, a, b) => cal_data.adc_min = a /\ cal_data.adc_max = b

C2_Witness ==
  /\ pc = "built"
  /\ \E a, b \in Codes :
       /\ 0 < a /\ a < b /\ b < MAX_CODE
       /\ SupportIs(histogram, a, b)
       /\ \E i \in Codes : a < i /\ i < b /\ histogram[i] = 0
       /\ cal_data.adc_min = a /\ cal_data.adc_max = b

\* C3: after build_correction_lut on a histogram with at least one nonzero
\* count, correction[i] = 0 for every i < code_min and
\* correction[i] = correction[code_max] for every i > code_max.
C3_EdgeCorrections ==
  (pc = "built" /\ \E c \in Codes : histogram[c] # 0) =>
    /\ \A i \in Codes : i < cal_data.adc_min => cal_data.correction[i] = 0
    /\ \A i \in Codes :
         i > cal_data.adc_max =>
           cal_data.correction[i] = cal_data.correction[cal_data.adc_max]

\* all mass strictly inside the table, a nonzero correction at code_max
C3_Witness ==
  /\ pc = "built"
  /\ 0 < cal_data.adc_min /\ cal_data.adc_max < MAX_CODE
  /\ histogram[cal_data.adc_min] # 0 /\ histogram[cal_data.adc_max] # 0
  /\ cal_data.correction[cal_data.adc_max] # 0
  /\ cal_data.correction[MAX_CODE] = cal_data.correction[cal_data.adc_max]
  /\ cal_data.correction[0] = 0

-----------------------------------------------------------------------------
(* The store under save_calibration and load_calibration *)

save_calibration ==
  /\ pc = "built"
  /\ \E begin1, begin2, csv_open, bin_open \in BOOLEAN,
        written \in ShortLengths \cup {SIZEOF_CAL} :
       /\ files' = SaveCalibration(files, histogram, cal_data,
                                   begin1, begin2, csv_open, bin_open, written)
       /\ save_ok' = SaveOutcome(begin1, begin2, csv_open, bin_open, written)
  /\ saved' = cal_data
  /\ pc' = "saved"
  /\ UNCHANGED <<calVars, passes, ret, dacVars, colVars, before, read_bytes,
               flowVars, adcVars>>

\* the firmware starts again: the static objects are zero, the files stay
reboot ==
  /\ pc \in {"built", "saved", "loaded"}
  /\ cal_data' = ZeroCalData
  /\ histogram' = ZeroTable
  /\ pc' = "boot"
  /\ UNCHANGED <<passes, ret, dacVars, colVars, storeVars, flowVars, adcVars>>

\* setup: load_calibration()
load_calibration ==
  /\ pc = "boot"
  /\ before' = cal_data
  /\ \E begin, open \in BOOLEAN :
       LET r == LoadCalibration(files, cal_data, begin, open)
       IN /\ ret' = r.ret
          /\ cal_data' = r.cal_data
          /\ read_bytes' = r.bytes
  /\ pc' = "loaded"
  /\ UNCHANGED <<histogram, passes, dacVars, colVars, files, saved, save_ok,
               flowVars, adcVars>>

\* A calibration has just been built; the store holds what an earlier run of
\* the firmware, or anything else, left in /adc_cal.bin.
InitStore ==
  /\ pc = "built"
  /\ histogram = [i \in Codes |-> NUM_SWEEPS]
  /\ cal_data \in BuiltRecords
  /\ passes = 0
  /\ ret = FALSE
  /\ DacInit
  /\ ColInit
  /\ files \in {[NoFiles EXCEPT ![CAL_BIN] = f] : f \in StoredFiles}
  /\ before = ZeroCalData
  /\ saved = ZeroCalData
  /\ save_ok = NothingSaved
  /\ read_bytes = -1
  /\ FlowInit
  /\ AdcInit

NextStore == save_calibration \/ reboot \/ load_calibration

SpecStore == InitStore /\ [][NextStore]_vars

-----------------------------------------------------------------------------
(* Applying the correction: adc_corrected *)

\* Values of the int16_t entries of the tables adc_corrected is run on.
CorrectionValues == {-32768, -1, 0, 1, 32767}

\* adc_corrected without the test against 0: the int32_t is returned as the
\* uint16_t it is cut to
AdcCorrectedNoFloor(cd, r) ==
  LET sum == r + cd.correction[r]
  IN IF sum > MAX_CODE THEN MAX_CODE ELSE sum % 65536

\* int32_t corrected = raw + cal_data.correction[raw];
\* if (corrected < 0) corrected = 0;
\* if (corrected > 4095) corrected = 4095;
\* return corrected;
AdcCorrected(cd, r) ==
  LET sum     == r + cd.correction[r]
      floored == IF sum < 0 THEN 0 ELSE sum
  IN IF floored > MAX_CODE THEN MAX_CODE ELSE floored

\* a call of adc_corrected(r)
adc_corrected(r) ==
  /\ raw' = r
  /\ corrected' = AdcCorrected(cal_data, r)
  /\ corrected_with' = cal_data.magic

AdcCorrectedCall ==
  /\ pc \in {"adc", "corrected"}
  /\ \E r \in Codes : adc_corrected(r)
  /\ pc' = "corrected"
  /\ UNCHANGED <<calVars, passes, ret, dacVars, colVars, storeVars, flowVars>>

\* A calibration is in cal_data; its entries take any value of an int16_t.
InitCorrect ==
  /\ pc = "adc"
  /\ histogram = ZeroTable
  /\ cal_data \in [magic : {MAGIC}, correction : [Codes -> CorrectionValues],
                   adc_min : {0}, adc_max : {MAX_CODE}]
  /\ passes = 0
  /\ ret = FALSE
  /\ DacInit
  /\ ColInit
  /\ StoreInit
  /\ FlowInit
  /\ AdcInit

SpecCorrect == InitCorrect /\ [][AdcCorrectedCall]_vars

-----------------------------------------------------------------------------
(* The firmware from power-up: setup, run_calibration, loop, and then the    *)
(* application that loads the table with load_calibration_from_file          *)

\* sd_accumulator once words were fed for a time the clock decides: some
\* multiple of 2^25, the targets being multiples of 2^20 and a word 32 steps
AccAfterFeeds == {Zero32, U32(512, 0)}

\* a routine that sets levels, feeds the modulator and leaves it at level
\* (the words in flight are followed in SpecDac, not here)
FedAndLeftAt(level_12bit) ==
  /\ sd_target' = TargetOf(level_12bit)
  /\ sd_accumulator' \in AccAfterFeeds
  /\ fed_words' = 0
  /\ set_bits' = 0
  /\ from_init' = FALSE
  /\ UNCHANGED fifo

\* readings of a level that fell on the next code, the same for every level
Spills == {0, 1, NUM_SWEEPS * SAMPLES_PER_LEVEL}

\* histogram at the end of collect_histogram when k readings of each level
\* below the top one fell on the next code and none was out of range
CollectedHistogram(k) ==
  [c \in Codes |->
     (IF c < MaxLevel THEN NUM_SWEEPS * SAMPLES_PER_LEVEL - k
      ELSE IF c = MaxLevel THEN NUM_SWEEPS * SAMPLES_PER_LEVEL ELSE 0)
     + (IF 1 <= c /\ c <= MaxLevel THEN k ELSE 0)]

\* load_calibration_from_file of the application.  The store decides begin
\* and open.  The result: the application's objects and the value returned.
LoadCalibrationFromFile(fl, a, begin, open) ==
  IF ~begin \/ ~open \/ ~fl[HIST_BIN].exists
  THEN [a EXCEPT !.ret = FALSE]
  ELSE LET data      == fl[HIST_BIN].data
           hist_size == ReadCount(data, 0, SIZEOF_HIST)
           cal_size  == ReadCount(data, hist_size, SIZEOF_CAL)
           h2  == HistOfImage(ReadOver(HistImage(a.histogram), data, 0, hist_size))
           cd2 == CalOfImage(ReadOver(CalImage(a.cal_data), data,
                                      hist_size, cal_size))
       IN [cal_data  |-> cd2,
           histogram |-> h2,
           ret       |-> (hist_size = SIZEOF_HIST /\ cal_size = SIZEOF_CAL
                          /\ cd2.magic = MAGIC)]

\* setup: dac_init, which fails when no state machine is free, and the
\* priming of the FIFO at level 0
setup_dac_init ==
  /\ pc = "setup"
  /\ \E claimed \in BOOLEAN :
       IF claimed
       THEN /\ FedAndLeftAt(0)
            /\ pc' = "setup_load"
       ELSE /\ pc' = "halted"
            /\ UNCHANGED dacVars
  /\ UNCHANGED <<calVars, passes, ret, colVars, storeVars, flowVars, adcVars>>

\* setup that verifies whatever load_calibration returned
AfterLoadAlwaysVerify(loaded) == "setup_verify"

\* if (load_calibration()) verify_calibration(); else run_calibration();
AfterLoad(loaded) == IF loaded THEN "setup_verify" ELSE "rc_quick_test"

\* setup: if (load_calibration()) verify_calibration(); else run_calibration();
setup_load ==
  /\ pc = "setup_load"
  /\ before' = cal_data
  /\ \E begin, open \in BOOLEAN :
       LET r == LoadCalibration(files, cal_data, begin, open)
       IN /\ ret' = r.ret
          /\ cal_data' = r.cal_data
          /\ read_bytes' = r.bytes
          /\ pc' = AfterLoad(r.ret)
  /\ calls' = <<>>
  /\ UNCHANGED <<histogram, passes, dacVars, colVars, files, saved, save_ok, app,
               adcVars>>

\* Codes the ADC returns in verify_calibration.
VerifyReadings == {0, MAX_CODE}

\* verify_calibration: seven test points, each read with
\* adc_corrected(adc_read()), then dac_set_level(0)
verify_calibration(next) ==
  /\ \E r \in VerifyReadings : adc_corrected(r)
  /\ FedAndLeftAt(0)
  /\ pc' = next
  /\ UNCHANGED <<calVars, passes, ret, colVars, storeVars, app>>

setup_verify ==
  /\ pc = "setup_verify"
  /\ verify_calibration("loop")
  /\ UNCHANGED calls

\* run_calibration: quick_test();
rc_quick_test ==
  /\ pc = "rc_quick_test"
  /\ FedAndLeftAt(0)
  /\ calls' = Append(calls, "quick_test")
  /\ pc' = "rc_collect"
  /\ UNCHANGED <<calVars, passes, ret, colVars, storeVars, app, adcVars>>

\* run_calibration: collect_histogram();
rc_collect ==
  /\ pc = "rc_collect"
  /\ \E k \in Spills : histogram' = CollectedHistogram(k)
  /\ FedAndLeftAt(0)
  /\ calls' = Append(calls, "collect_histogram")
  /\ pc' = "rc_build"
  /\ UNCHANGED <<cal_data, passes, ret, colVars, storeVars, app,
               adcVars>>

\* run_calibration: build_correction_lut();
rc_build ==
  /\ pc = "rc_build"
  /\ cal_data' = BuildCorrectionLut(histogram, cal_data)
  /\ calls' = Append(calls, "build_correction_lut")
  /\ pc' = "rc_save"
  /\ UNCHANGED <<histogram, passes, ret, dacVars, colVars, storeVars, app,
               adcVars>>

\* run_calibration: save_calibration();
rc_save ==
  /\ pc = "rc_save"
  /\ \E begin1, begin2, csv_open, bin_open \in BOOLEAN,
        written \in ShortLengths \cup {SIZEOF_CAL} :
       /\ files' = SaveCalibration(files, histogram, cal_data,
                                   begin1, begin2, csv_open, bin_open, written)
       /\ save_ok' = SaveOutcome(begin1, begin2, csv_open, bin_open, written)
  /\ saved' = cal_data
  /\ calls' = Append(calls, "save_calibration")
  /\ pc' = "rc_verify"
  /\ UNCHANGED <<calVars, passes, ret, dacVars, colVars, before, read_bytes, app,
               adcVars>>

\* run_calibration: verify_calibration();
rc_verify ==
  /\ pc = "rc_verify"
  /\ verify_calibration("loop")
  /\ calls' = Append(calls, "verify_calibration")

\* loop: case 'c': run_calibration();
cmd_c ==
  /\ pc = "loop"
  /\ calls' = <<>>
  /\ pc' = "rc_quick_test"
  /\ UNCHANGED <<calVars, passes, ret, dacVars, colVars, storeVars, app,
               adcVars>>

\* loop: case 't': quick_test();
cmd_t ==
  /\ pc = "loop"
  /\ FedAndLeftAt(0)
  /\ UNCHANGED <<pc, calVars, passes, ret, colVars, storeVars, flowVars, adcVars>>

\* loop: case 'v': verify_calibration();
cmd_v ==
  /\ pc = "loop"
  /\ verify_calibration("loop")
  /\ UNCHANGED calls

\* loop: case 'd': dump_csv_to_serial(); case 'h': the help.  Both only print.
cmd_d_h ==
  /\ pc = "loop"
  /\ UNCHANGED vars

\* loop: case 'n': setDAC(0); case 'm': setDAC(4095);
cmd_n_m ==
  /\ pc = "loop"
  /\ \E lv \in {0, 4095} : FedAndLeftAt(lv)
  /\ UNCHANGED <<pc, calVars, passes, ret, colVars, storeVars, flowVars, adcVars>>

\* the board then runs the application, which calls
\* load_calibration_from_file on the same flash
app_load ==
  /\ pc = "loop"
  /\ \E begin, open \in BOOLEAN :
       app' = LoadCalibrationFromFile(files, app, begin, open)
  /\ pc' = "app"
  /\ UNCHANGED <<calVars, passes, ret, dacVars, colVars, storeVars, calls,
               adcVars>>

\* a calibration stored by another run: the table, and the histogram with it
OtherRecord ==
  [magic |-> MAGIC, correction |-> [i \in Codes |-> 258],
   adc_min |-> 1, adc_max |-> 1]
OtherHistogram == [i \in Codes |-> 7]

\* Power-up.  The flash holds what earlier firmware left there.
Init ==
  /\ pc = "setup"
  /\ histogram = ZeroTable
  /\ cal_data = ZeroCalData
  /\ passes = 0
  /\ ret = FALSE
  /\ DacInit
  /\ ColInit
  /\ \E bin \in {NoFile, FileOf(CalImage(OtherRecord)),
                 FileOf(CalImage([OtherRecord EXCEPT !.magic = BAD_MAGIC])),
                 FileOf(SubSeq(CalImage(OtherRecord), 1, 3))},
        hist \in {NoFile,
                  FileOf(HistImage(OtherHistogram) \o CalImage(OtherRecord))} :
       files = [NoFiles EXCEPT ![CAL_BIN] = bin, ![HIST_BIN] = hist]
  /\ before = ZeroCalData
  /\ saved = ZeroCalData
  /\ save_ok = NothingSaved
  /\ read_bytes = -1
  /\ FlowInit
  /\ AdcInit

Next ==
  \/ setup_dac_init
  \/ setup_load
  \/ setup_verify
  \/ rc_quick_test
  \/ rc_collect
  \/ rc_build
  \/ rc_save
  \/ rc_verify
  \/ cmd_c
  \/ cmd_t
  \/ cmd_v
  \/ cmd_d_h
  \/ cmd_n_m
  \/ app_load

Spec == Init /\ [][Next]_vars

-----------------------------------------------------------------------------
(* Boundary smoother: smooth_correction_table, over the firmware's 4096 codes *)

\* Largest magnitude of the table entries the smoother is run on.
MaxStep == 2
\* Smoothing passes run in a row.
MaxPasses == 2

boundaries == <<512, 1536, 2560, 3584>>
radius == 16

\* (int16_t)(num/den) for den > 0: the cast truncates toward zero
TruncDiv(num, den) ==
  IF num >= 0 THEN num \div den ELSE -((-num) \div den)

\* One boundary with both anchors read next to the boundary, inside the
\* region the loop overwrites.
SmoothBoundaryInnerAnchors(corr, center) ==
  LET l0 == center - radius - 1
      r0 == center + radius
      left_idx  == IF l0 < 0 THEN 0 ELSE l0
      right_idx == IF r0 > 4095 THEN 4095 ELSE r0
      left_val  == corr[center - 1]
      right_val == corr[center]
  IN [i \in DOMAIN corr |->
        IF left_idx + 1 <= i /\ i < right_idx
        THEN ToInt16(left_val
                     + ToInt16(TruncDiv((i - left_idx) * (right_val - left_val),
                                        right_idx - left_idx)))
        ELSE corr[i]]

\* One iteration of `for (int b = 0; b < 4; b++)`.  The anchors are read
\* before the inner loop writes, and every entry the inner loop writes depends
\* on the two anchors and on i only.  t * (right_val - left_val) is taken as
\* the exact quotient.
SmoothBoundary(corr, center) ==
  LET l0 == center - radius - 1
      r0 == center + radius
      left_idx  == IF l0 < 0 THEN 0 ELSE l0
      right_idx == IF r0 > 4095 THEN 4095 ELSE r0
      left_val  == corr[left_idx]
      right_val == corr[right_idx]
  IN [i \in DOMAIN corr |->
        IF left_idx + 1 <= i /\ i < right_idx
        THEN ToInt16(left_val
                     + ToInt16(TruncDiv((i - left_idx) * (right_val - left_val),
                                        right_idx - left_idx)))
        ELSE corr[i]]

\* the four boundaries in the order of the loop
SmoothCorrectionTable(corr) ==
  SmoothBoundary(
    SmoothBoundary(
      SmoothBoundary(
        SmoothBoundary(corr, boundaries[1]), boundaries[2]), boundaries[3]),
    boundaries[4])

smooth_correction_table ==
  /\ pc = "smooth"
  /\ passes < MaxPasses
  /\ cal_data' = [cal_data EXCEPT !.correction = SmoothCorrectionTable(@)]
  /\ passes' = passes + 1
  /\ UNCHANGED <<pc, histogram, ret, dacVars, colVars,
               storeVars, flowVars, adcVars>>

\* A table with a step of q - p at every boundary and a slope of r per 1024
\* codes.
StepTable(p, q, r) ==
  [i \in 0 .. 4095 |->
     (IF i % 1024 < 512 THEN p ELSE q) + r * (i \div 1024)]

InitSmooth ==
  /\ pc = "smooth"
  /\ passes = 0
  /\ ret = FALSE
  /\ DacInit
  /\ ColInit
  /\ StoreInit
  /\ FlowInit
  /\ AdcInit
  /\ histogram = ZeroTable
  /\ \E p, q \in -MaxStep .. MaxStep, r \in 0 .. 1 :
       cal_data = [magic |-> MAGIC, correction |-> StepTable(p, q, r),
                   adc_min |-> 0, adc_max |-> 4095]

SpecSmooth == InitSmooth /\ [][smooth_correction_table]_vars

\* the two anchors of the boundary at center
Anchors(center) == {center - radius - 1, center + radius}

\* C5: a second run of smooth_correction_table in succession leaves the table
\* of the first run as it is, and no run modifies an anchor entry of the
\* boundaries 512, 1536, 2560, 3584.
C5_SmoothingIdempotent ==
  [][/\ passes >= 1 => cal_data'.correction = cal_data.correction
     /\ \A b \in 1 .. 4 : \A a \in Anchors(boundaries[b]) :
          cal_data'.correction[a] = cal_data.correction[a]]_vars

\* two passes were run on a table the first pass changed: the entry left of
\* the boundary 512 is interpolated, strictly between its two anchors
C5_Witness ==
  /\ passes = 2
  /\ cal_data.correction[495] < cal_data.correction[511]
  /\ cal_data.correction[511] < cal_data.correction[528]

-----------------------------------------------------------------------------
(* Claims about the modulator, checked under SpecDac *)

\* C6: with the target held at level T from the accumulator of the
\* initialization, after W fed words the number of set bits among the 32*W
\* emitted bits differs from 32*W*T/4096 by less than 1.
C6_ModulatorFidelity ==
  from_init =>
    LET d == 4096 * set_bits - 32 * fed_words * LevelOf(sd_target)
    IN -4096 < d /\ d < 4096

\* several words at a level whose share of set bits is not a whole number
C6_Witness ==
  /\ from_init
  /\ fed_words = MaxWords
  /\ LevelOf(sd_target) = 1365
  /\ set_bits > 0
  /\ 4096 * set_bits # 32 * fed_words * 1365

\* 32 * t modulo 2^32
Times32(t) ==
  U32((32 * t.hi + (32 * t.lo) \div 65536) % 65536, (32 * t.lo) % 65536)

\* a step in which dac_feed_one returned: it pushed a word, or the value
\* returned changed (a call that returns false twice in a row changes nothing)
FeedOneReturned == fed_words' = fed_words + 1 \/ ret' # ret

\* C12: dac_feed_one never blocks: with the queue full it returns false,
\* emits no word and leaves accumulator and target unchanged; with the queue
\* not full it returns true, pushes exactly one word and advances the
\* accumulator by 32 additions of the target (mod 2^32).  dac_set_level
\* never changes the accumulator.
C12_FeedOneFrame ==
  [][/\ FeedOneReturned =>
          IF Len(fifo) >= TX_FIFO_DEPTH
          THEN /\ ret' = FALSE
               /\ fifo' = fifo
               /\ sd_accumulator' = sd_accumulator
               /\ sd_target' = sd_target
          ELSE /\ ret' = TRUE
               /\ Len(fifo') = Len(fifo) + 1
               /\ SubSeq(fifo', 1, Len(fifo)) = fifo
               /\ sd_accumulator' = Add32(sd_accumulator, Times32(sd_target))
               /\ sd_target' = sd_target
     /\ DacSetLevel => sd_accumulator' = sd_accumulator]_vars

\* a feed found the queue full after feeds at a level above 0 had filled it
C12_Witness ==
  /\ ret = FALSE
  /\ Len(fifo) = TX_FIFO_DEPTH
  /\ fed_words >= TX_FIFO_DEPTH
  /\ sd_target # Zero32
  /\ sd_accumulator # Zero32

-----------------------------------------------------------------------------
(* Claims about the collector, checked under SpecCollect *)

RECURSIVE SumUpTo(_, _)
SumUpTo(h, i) == IF i < 0 THEN 0 ELSE h[i] + SumUpTo(h, i - 1)

\* C7: after any collect_histogram run, a first one or one that follows an
\* earlier run, in which every reading was a code of the table, the counters
\* of the histogram add up to NUM_SWEEPS x (number of levels, 4096 in the
\* firmware) x SAMPLES_PER_LEVEL.
C7_HistogramConservation ==
  (pc = "collected" /\ discarded = 0) =>
    SumUpTo(histogram, MAX_CODE) = NUM_SWEEPS * (MaxLevel + 1) * SAMPLES_PER_LEVEL

\* a second run is over, with every reading in range and not all on the level
C7_Witness ==
  /\ pc = "collected"
  /\ runs = 2
  /\ discarded = 0
  /\ \E c \in Codes : histogram[c] # NUM_SWEEPS * SAMPLES_PER_LEVEL
  /\ SumUpTo(histogram, MAX_CODE) = NUM_SWEEPS * (MaxLevel + 1) * SAMPLES_PER_LEVEL

-----------------------------------------------------------------------------
(* Claims about the store, checked under SpecStore *)

\* the file load_calibration read was short, or of full size with a magic
\* that is not 0xCA11B8ED
InvalidRecordRead ==
  /\ read_bytes >= 0
  /\ \/ read_bytes < SIZEOF_CAL
     \/ SubSeq(files[CAL_BIN].data, 1, 4) # MAGIC

\* C8: a load of an invalid record (a short read, or a wrong magic with the
\* right size) returns false and leaves the in-memory calibration record
\* (table, range, magic) as it was before the load.
C8_InvalidLoadLeavesRecord ==
  (pc = "loaded" /\ InvalidRecordRead) => (ret = FALSE /\ cal_data = before)

\* C9: save_calibration followed by load_calibration, with the store opening
\* the file and transferring all bytes both times, returns true and
\* reproduces the table, the magic and adc_min/adc_max that were saved.
C9_RoundTrip ==
  (pc = "loaded" /\ save_ok.bin /\ read_bytes >= 0) =>
    (ret = TRUE /\ cal_data = saved)

\* a record with negative and two-byte entries came back from the store into
\* the zeroed memory of a fresh start
C9_Witness ==
  /\ pc = "loaded"
  /\ save_ok.bin
  /\ read_bytes = SIZEOF_CAL
  /\ before = ZeroCalData
  /\ cal_data = saved
  /\ \E i, j \in Codes : cal_data.correction[i] = -1 /\ cal_data.correction[j] = 258

-----------------------------------------------------------------------------
(* Claims about the whole flow, checked under Spec *)

\* C4: in the calibration flow the boundary smoother is applied to the table
\* after build_correction_lut and before save_calibration: whenever the flow
\* has called save_calibration, it has called build_correction_lut and then
\* smooth_correction_table before it.
C4_SmoothedBetweenBuildAndSave ==
  \A k \in 1 .. Len(calls) :
    calls[k] = "save_calibration" =>
      \E i, j \in 1 .. Len(calls) :
        /\ i < j
        /\ j < k
        /\ calls[i] = "build_correction_lut"
        /\ calls[j] = "smooth_correction_table"

\* C10: after a calibration whose save wrote its files in full, the
\* application's load_calibration_from_file returns true and the table,
\* adc_min and adc_max it holds are those the calibrator saved.
C10_AppLoadsWhatWasSaved ==
  (pc = "app" /\ save_ok.bin /\ save_ok.csv) =>
    /\ app.ret = TRUE
    /\ app.cal_data.correction = saved.correction
    /\ app.cal_data.adc_min = saved.adc_min
    /\ app.cal_data.adc_max = saved.adc_max

-----------------------------------------------------------------------------
(* Claims about adc_corrected, checked under SpecCorrect *)

Clamp(v, lo, hi) == IF v < lo THEN lo ELSE IF v > hi THEN hi ELSE v

\* C11: for every raw code r and every correction table, adc_corrected(r)
\* returns r + correction[r] clamped to [0, 4095]; the result is within
\* 0..4095 and the call modifies no calibration state.
C11_CorrectedIsClamped ==
  [][pc' = "corrected" =>
       /\ corrected' = Clamp(raw' + cal_data.correction[raw'], 0, MAX_CODE)
       /\ corrected' \in 0 .. MAX_CODE
       /\ cal_data' = cal_data
       /\ histogram' = histogram]_vars

\* a call whose sum was below 0 and was clamped to 0
C11_Witness ==
  /\ pc = "corrected"
  /\ raw + cal_data.correction[raw] < 0
  /\ corrected = 0

\* C13: in every execution from setup through any sequence of serial
\* commands, and for any outcome of load_calibration and save_calibration,
\* every call of adc_corrected happens in a state where cal_data.magic is
\* 0xCA11B8ED (checked under Spec).
C13_CorrectionGated ==
  corrected_with # <<>> => corrected_with = MAGIC

\* load_calibration read a whole record with a wrong magic and returned
\* false, the calibration ran, its save failed, and its verify_calibration
\* called adc_corrected
C13_Witness ==
  /\ pc = "loop"
  /\ ret = FALSE
  /\ read_bytes = SIZEOF_CAL
  /\ ~save_ok.bin
  /\ calls # <<>>
  /\ calls[Len(calls)] = "verify_calibration"
  /\ corrected_with = MAGIC

=============================================================================
